---------------------------- MODULE Spec2Model ----------------------------
(***************************************************************************)
(* Candidate-gene cascade of 05_Figure6_PE_Aged_pseudotime.ipynb:          *)
(* get_grouped_data, filter_genes_by_conditions, calc_avg_distance,        *)
(* calc_fib_fraction and the Figure 6A driver cell.                        *)
(*                                                                         *)
(* Numbers.  Expression values and pseudotimes are small naturals, so      *)
(* every mean is an exact rational, kept as a pair <<numerator,            *)
(* denominator>> and compared by cross-multiplication.  The Gaussian       *)
(* kernel of scipy (sigma 2, radius 8) is kept as its weights rounded to   *)
(* three decimals.  The 1e-9 added to a denominator is far below the       *)
(* granularity of these rationals, so a/(b + 1e-9) > T is decided as       *)
(* a > T*b (at a = T*b the quotient is below T).  NaN is a mean with      *)
(* count 0.  Floating-point rounding is not modelled.  np.log2 is          *)
(* one-to-one, so a log2 fold change is kept as the pair of means whose    *)
(* quotient is its argument.  A mean distance is kept as the squared       *)
(* nearest-neighbour distances whose roots are averaged.                   *)
(***************************************************************************)
EXTENDS Integers, Sequences, FiniteSets, TLC

\* ---- bounds of the input family -------------------------------------
NCells == 8
MaxExpr == 3
MaxPt == 2
MaxBins == 3
MaxCoord == 4

\* ---- Parameters cell (the thresholds are fixed; NUM_BINS and ----------
\* ---- early_phase_bins are globals the input family varies) ------------
ShippedFibroticNiches == <<"Fibrotic Niche", "Ultraproximal", "Proximal">>
ShippedRemoteNiche == "Remote"
\* thresholds as rationals <<numerator, denominator>>
min_std == <<1, 10000>>
min_fraction_target == <<1, 10>>
fib_fraction_threshold == <<3, 10>>
fold_change_threshold == 2
\* the shipped values of the two globals
ShippedNumBins == 50
ShippedEarlyPhaseBins == 50

ct == "Fibroblast (activated)"
OtherType == "Endothelial"
CellTypes == {ct, OtherType}
\* the genes and the cells of the base data set
BaseVarNames == <<"C1qtnf3", "Comp">>
BaseGenes == {BaseVarNames[i] : i \in 1..Len(BaseVarNames)}
BaseCells == 1..NCells
NicheVocab == ShippedFibroticNiches \o <<ShippedRemoteNiche>>
NicheSet == {NicheVocab[i] : i \in 1..Len(NicheVocab)}

VARIABLES
    var_names,         \* adata.var_names: the gene columns, in order
    obs,               \* adata.obs: cell -> [cell_type2, cell_niche, pseudotime]
    expr_all,          \* expr_all: cell -> gene -> value
    spatial,           \* adata.obsm["spatial"]: cell -> <<x, y>>
    fibrotic_niches,   \* global list of fibrotic-associated niches
    remote_niche,      \* global name of the remote niche
    NUM_BINS,          \* global bin count
    early_phase_bins,  \* global early-phase window
    pc,                \* position in the notebook run
    genes,             \* filter_genes_by_conditions: Stage-1 list
    genes2,            \* Stage-2 list
    genes3,            \* Stage-3 list
    passed,            \* Stage-4 list
    fc_computed,       \* genes for which Stage 4 evaluated the ratio fc
    ret_genes,         \* the driver's `genes`: the list the cascade returned
    dist,              \* driver: calc_avg_distance result
    frac,              \* driver: calc_fib_fraction result
    log2fc,            \* driver: argument of np.log2, per gene
    df,                \* driver: the rows of the per-gene table
    calls,             \* how often each scorer / the KDTree constructor ran,
                       \* and the genes for which tree.query ran
    tree,              \* calc_avg_distance: the cells the KDTree holds
    gi,                \* calc_avg_distance: position in `genes`
    bin_calls,         \* Stage 3: <<gene, niche number, outcome>> for every
                       \* call of get_grouped_data, in call order
    run,               \* how often the cells have been run in this kernel
    first              \* what the first run left: [pc, genes, df]

vars == <<var_names, obs, expr_all, spatial, fibrotic_niches, remote_niche, NUM_BINS,
          early_phase_bins, pc, genes, genes2, genes3, passed, fc_computed,
          ret_genes, dist, frac, log2fc, df, calls, tree, gi, bin_calls,
          run, first>>

\* instrumentation and loop state that most steps leave alone
kernel == <<run, first>>

inputs == <<var_names, obs, expr_all, spatial, fibrotic_niches, remote_niche,
            NUM_BINS, early_phase_bins>>

\* adata.obs_names and the set of the gene columns
Cells == DOMAIN obs
GeneSet == {var_names[i] : i \in 1..Len(var_names)}

\* ---- small helpers ------------------------------------------------------
SeqToSet(s) == {s[i] : i \in 1..Len(s)}

RECURSIVE SumOver(_, _)
SumOver(S, f) ==
    IF S = {} THEN 0
    ELSE LET c == CHOOSE x \in S : TRUE IN f[c] + SumOver(S \ {c}, f)

\* the function f with every value computed once (a function is otherwise
\* re-evaluated at each application)
Table(f) == f @@ <<>>

SetMin(S) == CHOOSE x \in S : \A y \in S : x <= y
SetMax(S) == CHOOSE x \in S : \A y \in S : x >= y

\* ---- masks ----------------------------------------------------------------
\* adata.obs["cell_type2"] == target_cell_type
TgtMask(target_cell_type) == {c \in Cells : obs[c].cell_type2 = target_cell_type}

\* adata.obs["cell_niche"].isin(fibrotic_niches)
InFibrotic(c) == obs[c].cell_niche \in SeqToSet(fibrotic_niches)

\* expr[g] > 0 over a set of cells
Expressing(S, g) == {c \in S : expr_all[c][g] > 0}

\* Series.mean() of gene g over the cells S: <<sum, count>>; a count of 0
\* stands for NaN (the mean of no value)
MeanExpr(S, g) ==
    <<SumOver(S, [c \in Cells |-> expr_all[c][g]]), Cardinality(S)>>

IsNaN(mean) == mean[2] = 0

\* ---- Stage 1: variability and detection ------------------------------------
\* n*sum(x^2) - (sum x)^2, the numerator of the sample variance times n(n-1)
VarNumerator(S, g) ==
    Cardinality(S) * SumOver(S, [c \in Cells |-> expr_all[c][g] * expr_all[c][g]])
    - SumOver(S, [c \in Cells |-> expr_all[c][g]])
      * SumOver(S, [c \in Cells |-> expr_all[c][g]])

\* expr_tgt.std(axis=0) > min_std  (ddof = 1: NaN, hence False, below 2 rows)
StdAboveMin(S, g) ==
    LET n == Cardinality(S)
        D == VarNumerator(S, g)
        M == min_std[1] * min_std[1] * n * (n - 1)
    IN  /\ n >= 2
        /\ D > 0
        /\ min_std[2] * min_std[2] > M \div D

\* mutant: a detection fraction equal to the minimum is kept
DetectedAboveMin_GE(S, g) ==
    /\ S # {}
    /\ Cardinality(Expressing(S, g)) * min_fraction_target[2]
         >= min_fraction_target[1] * Cardinality(S)

\* (expr_tgt > 0).mean(axis=0) > min_fraction_target  (NaN on no rows)
DetectedAboveMin(S, g) ==
    /\ S # {}
    /\ Cardinality(Expressing(S, g)) * min_fraction_target[2]
         > min_fraction_target[1] * Cardinality(S)

Stage1Cond(tgt, g) == StdAboveMin(tgt, g) /\ DetectedAboveMin(tgt, g)

\* genes = cond[cond].index.tolist(): the columns, in column order
Stage1Genes(tgt) == SelectSeq(var_names, LAMBDA g : Stage1Cond(tgt, g))

\* mutant: any gene with an expressing target cell is kept
Stage2Keep_AnyFraction(tgt, g) ==
    Expressing(tgt, g) # {}

\* ---- Stage 2: niche localization of detection ------------------------------
\* frac >= fib_fraction_threshold, frac the mean of isin(fibrotic_niches) over
\* the expressing target cells (NaN, hence False, when there is none)
\* mutant: the fraction is taken over all target cells
Stage2Keep_OverTarget(tgt, g) ==
    LET mask == Expressing(tgt, g)
        fib == {c \in mask : InFibrotic(c)}
    IN  /\ mask # {}
        /\ Cardinality(fib) * fib_fraction_threshold[2]
             >= fib_fraction_threshold[1] * Cardinality(tgt)

\* mutant: a fraction equal to the threshold is rejected
Stage2Keep_Strict(tgt, g) ==
    LET mask == Expressing(tgt, g)
        fib == {c \in mask : InFibrotic(c)}
    IN  /\ mask # {}
        /\ Cardinality(fib) * fib_fraction_threshold[2]
             > fib_fraction_threshold[1] * Cardinality(mask)

Stage2Keep(tgt, g) ==
    LET mask == Expressing(tgt, g)
        fib == {c \in mask : InFibrotic(c)}
    IN  /\ mask # {}
        /\ Cardinality(fib) * fib_fraction_threshold[2]
             >= fib_fraction_threshold[1] * Cardinality(mask)

\* mutant: a kept gene is put at the front of the list
RECURSIVE Stage2Loop_Prepend(_, _, _, _)
Stage2Loop_Prepend(tgt, gs, i, acc) ==
    IF i > Len(gs) THEN acc
    ELSE Stage2Loop_Prepend(tgt, gs, i + 1,
                            IF Stage2Keep(tgt, gs[i]) THEN <<gs[i]>> \o acc ELSE acc)

\* for g in genes: ... genes2.append(g)
RECURSIVE Stage2Loop(_, _, _, _)
Stage2Loop(tgt, gs, i, acc) ==
    IF i > Len(gs) THEN acc
    ELSE Stage2Loop(tgt, gs, i + 1,
                    IF Stage2Keep(tgt, gs[i]) THEN Append(acc, gs[i]) ELSE acc)

\* mutant: the list of the previous call is not emptied
Stage2Genes_KeepOld(tgt, gs) == Stage2Loop(tgt, gs, 1, genes2)

Stage2Genes(tgt, gs) == Stage2Loop(tgt, gs, 1, <<>>)

\* ---- get_grouped_data -------------------------------------------------------
PtOf(c) == obs[c].pseudotime
PtMin(m) == SetMin({PtOf(c) : c \in m})
PtMax(m) == SetMax({PtOf(c) : c \in m})

\* bins = np.linspace(pt.min(), pt.max(), num_bins + 1): edge i as a rational
BinEdge(m, num_bins, i) ==
    <<num_bins * PtMin(m) + i * (PtMax(m) - PtMin(m)), num_bins>>

\* pd.cut(pt, bins, labels=range(num_bins), include_lowest=True): the lowest
\* edge goes to label 0, any other value to the interval (edge i, edge i+1]
\* it lies in, found as searchsorted(side="left") - 1
CutLabel(m, num_bins, c) ==
    LET span == PtMax(m) - PtMin(m)
        off == PtOf(c) - PtMin(m)
    IN  IF off = 0 THEN 0
        ELSE Cardinality({i \in 0..num_bins : i * span < num_bins * off}) - 1

\* np.linspace / pd.cut / astype(int) raise: no edge or a single edge
\* (num_bins <= 0), or duplicate edges (all pseudotimes equal) with more
\* than two edges
CutRaises(m, num_bins) ==
    \/ num_bins <= 0
    \/ (PtMax(m) = PtMin(m) /\ num_bins >= 2)

\* df.groupby("pt_bin").mean().reindex(range(num_bins), fill_value=0):
\* per bin and gene the mean <<sum, count>>, <<0, 1>> for a bin without cells
GroupMeans(m, num_bins) ==
    LET pt_bin == Table([c \in m |-> CutLabel(m, num_bins, c)])
    IN  Table([b \in 0..(num_bins - 1) |->
            Table([g \in GeneSet |->
                LET inbin == {c \in m : pt_bin[c] = b}
                IN  IF inbin = {} THEN <<0, 1>> ELSE MeanExpr(inbin, g)])])

\* centers = (bins[:-1] + bins[1:]) / 2
BinCenters(m, num_bins) ==
    [b \in 0..(num_bins - 1) |->
        <<2 * num_bins * PtMin(m) + (2 * b + 1) * (PtMax(m) - PtMin(m)),
          2 * num_bins>>]

\* the value of get_grouped_data(adata[m].copy()) for a non-empty mask m
get_grouped_data(m, num_bins) ==
    IF CutRaises(m, num_bins)
    THEN [raised |-> TRUE]
    ELSE [raised |-> FALSE,
          grp |-> GroupMeans(m, num_bins),
          centers |-> BinCenters(m, num_bins)]

\* ---- gaussian_filter1d(values, sigma=2) and np.gradient ----------------------
\* exp(-k^2 / 8) for k = 0..8 (radius int(4.0 * 2 + 0.5)), times 1000, rounded
GaussW == <<1000, 882, 607, 325, 135, 44, 11, 2, 0>>
GaussRadius == Len(GaussW) - 1

\* mode="reflect": (d c b a | a b c d | d c b a)
Reflect(j, n) ==
    LET p == j % (2 * n)
    IN  IF p < n THEN p ELSE 2 * n - 1 - p

Abs(k) == IF k < 0 THEN -k ELSE k

\* the common denominator of a bin column
RECURSIVE DenProduct(_, _, _)
DenProduct(grp, g, b) ==
    IF b < 0 THEN 1 ELSE grp[b][g][2] * DenProduct(grp, g, b - 1)

\* grp[g].values brought to the common denominator
BinValues(grp, g, n) ==
    Table([b \in 0..(n - 1) |->
        grp[b][g][1] * (DenProduct(grp, g, n - 1) \div grp[b][g][2])])

\* smooth[i] = sum over k of w[|k|] * values[reflect(i + k)]  (times the
\* positive normalisation constant of the kernel)
gaussian_filter1d(values, n) ==
    Table([i \in 0..(n - 1) |->
        SumOver(-GaussRadius..GaussRadius,
                [k \in -GaussRadius..GaussRadius |->
                    GaussW[Abs(k) + 1] * values[Reflect(i + k, n)]])])

\* np.gradient(smooth, ctr) for equally spaced ctr, times 2h (h > 0 the
\* spacing): one-sided differences at the two ends, central ones inside
gradient(f, n) ==
    Table([i \in 0..(n - 1) |->
        IF i = 0 THEN 2 * (f[1] - f[0])
        ELSE IF i = n - 1 THEN 2 * (f[n - 1] - f[n - 2])
        ELSE f[i + 1] - f[i - 1]])

\* mutant: a slice bound at or above the length leaves out the last sample
SliceTo_Initial(k, n) ==
    IF k >= 0 THEN 0..((IF k < n THEN k ELSE n - 1) - 1)
    ELSE 0..(n + k - 1)

\* indices selected by the Python slice [:k] of an array of length n
SliceTo(k, n) ==
    IF k >= 0 THEN 0..((IF k < n THEN k ELSE n) - 1)
    ELSE 0..(n + k - 1)

\* np.gradient(smooth, ctr)[:early_phase_bins].mean() <= 0
\* (the mean of an empty slice is NaN and NaN <= 0 is False)
EarlyMeanNotPositive(grp, g, n) ==
    LET d == gradient(gaussian_filter1d(BinValues(grp, g, n), n), n)
        w == SliceTo(early_phase_bins, n)
    IN  /\ w # {}
        /\ SumOver(w, d) <= 0

\* ---- Stage 3: early induction in every fibrotic niche -------------------------
\* m = tgt & (adata.obs["cell_niche"] == niche)
NicheMask(tgt, niche) == {c \in tgt : obs[c].cell_niche = niche}

\* one pass of the inner loop body for gene g and niche number i:
\* "empty" (m.sum()==0: ok = False, break, before any binning), "break"
\* (ok = False after the binning), "next" (go on with the next niche) or
\* "raise" (np.gradient needs at least two samples)
NicheStep(tgt, g, i) ==
    LET m == NicheMask(tgt, fibrotic_niches[i])
    IN  IF m = {} THEN "empty"
        ELSE LET r == get_grouped_data(m, NUM_BINS)
             IN  IF r.raised THEN "raise"
                 ELSE IF NUM_BINS < 2 THEN "raise"
                 ELSE IF EarlyMeanNotPositive(r.grp, g, NUM_BINS) THEN "break"
                 ELSE "next"

\* mutant: one early-rising niche is enough (a disjunction over the niches)
RECURSIVE NicheLoop_AnyNiche(_, _, _)
NicheLoop_AnyNiche(tgt, g, i) ==
    IF i > Len(fibrotic_niches) THEN [res |-> "reject", binned |-> <<>>]
    ELSE LET r == NicheStep(tgt, g, i)
         IN  IF r = "next" THEN [res |-> "ok", binned |-> <<<<i, r>>>>]
             ELSE IF r = "raise" THEN [res |-> "raise", binned |-> <<<<i, r>>>>]
             ELSE LET rest == NicheLoop_AnyNiche(tgt, g, i + 1)
                  IN  [res |-> rest.res,
                       binned |-> (IF r = "break" THEN <<<<i, r>>>> ELSE <<>>)
                                    \o rest.binned]

\* mutant: a failed niche does not end the loop (no break)
RECURSIVE NicheLoop_NoBreak(_, _, _)
NicheLoop_NoBreak(tgt, g, i) ==
    IF i > Len(fibrotic_niches) THEN [res |-> "ok", binned |-> <<>>]
    ELSE LET r == NicheStep(tgt, g, i)
         IN  IF r = "raise" THEN [res |-> "raise", binned |-> <<<<i, r>>>>]
             ELSE LET rest == NicheLoop_NoBreak(tgt, g, i + 1)
                  IN  [res |-> IF rest.res = "raise" THEN "raise"
                               ELSE IF r = "next" THEN rest.res
                               ELSE "reject",
                       binned |-> (IF r = "empty" THEN <<>> ELSE <<<<i, r>>>>)
                                    \o rest.binned]

\* for niche in fibrotic_niches: ...   res is "ok", "reject" or "raise";
\* binned lists the niche numbers for which get_grouped_data ran, each with
\* the outcome of that pass of the loop body
RECURSIVE NicheLoop(_, _, _)
NicheLoop(tgt, g, i) ==
    IF i > Len(fibrotic_niches) THEN [res |-> "ok", binned |-> <<>>]
    ELSE LET r == NicheStep(tgt, g, i)
         IN  IF r = "next"
             THEN LET rest == NicheLoop(tgt, g, i + 1)
                  IN  [res |-> rest.res, binned |-> <<<<i, r>>>> \o rest.binned]
             ELSE IF r = "empty" THEN [res |-> "reject", binned |-> <<>>]
             ELSE IF r = "break" THEN [res |-> "reject", binned |-> <<<<i, r>>>>]
             ELSE [res |-> "raise", binned |-> <<<<i, r>>>>]

\* the binning calls of one gene, as <<gene, niche number, outcome>>
BinCallsOf(g, binned) ==
    [k \in 1..Len(binned) |-> <<g, binned[k][1], binned[k][2]>>]

\* for g in genes2: ...  if ok: genes3.append(g)
RECURSIVE Stage3Loop(_, _, _, _, _)
Stage3Loop(tgt, gs, i, acc, log) ==
    IF i > Len(gs) THEN [raised |-> FALSE, genes3 |-> acc, bin_calls |-> log]
    ELSE LET r == NicheLoop(tgt, gs[i], 1)
             log2 == log \o BinCallsOf(gs[i], r.binned)
         IN  IF r.res = "raise"
             THEN [raised |-> TRUE, genes3 |-> acc, bin_calls |-> log2]
             ELSE Stage3Loop(tgt, gs, i + 1,
                             IF r.res = "ok" THEN Append(acc, gs[i]) ELSE acc,
                             log2)

Stage3Genes(tgt, gs) == Stage3Loop(tgt, gs, 1, <<>>, <<>>)

\* ---- Stage 4: fold change against the remote niche ----------------------------
\* mutant: the fibrotic population is not restricted to the target cells
FibMask_AnyType(tgt) == {c \in Cells : InFibrotic(c)}

\* fibm = tgt & adata.obs["cell_niche"].isin(fibrotic_niches)
FibMask(tgt) == {c \in tgt : InFibrotic(c)}
\* remm = tgt & (adata.obs["cell_niche"] == remote_niche)
RemMask(tgt) == {c \in tgt : obs[c].cell_niche = remote_niche}

\* mutant: an empty remote population does not count as all-zero
RemAllZero_NonEmpty(tgt, g) ==
    /\ RemMask(tgt) # {}
    /\ \A c \in RemMask(tgt) : expr_all[c][g] = 0

\* mutant: the zero guard is missing
RemAllZero_Never(tgt, g) == FALSE

\* rem_vals.eq(0).all()
RemAllZero(tgt, g) == \A c \in RemMask(tgt) : expr_all[c][g] = 0

\* mutant: a ratio equal to the threshold is kept
FcAboveThreshold_GE(tgt, g) ==
    LET fm == MeanExpr(FibMask(tgt), g)
        rm == MeanExpr(RemMask(tgt), g)
    IN  /\ ~IsNaN(fm)
        /\ fm[1] * rm[2] >= fold_change_threshold * rm[1] * fm[2]

\* fc > fold_change_threshold, fc = fibm mean / (remm mean + 1e-9); only
\* evaluated with a remm value above 0; NaN (no fibm cell) compares False
FcAboveThreshold(tgt, g) ==
    LET fm == MeanExpr(FibMask(tgt), g)
        rm == MeanExpr(RemMask(tgt), g)
    IN  /\ ~IsNaN(fm)
        /\ fm[1] * rm[2] > fold_change_threshold * rm[1] * fm[2]

\* for g in genes3: ...  passed.append(g); also the genes fc was evaluated for
RECURSIVE Stage4Loop(_, _, _, _, _)
Stage4Loop(tgt, gs, i, acc, seen) ==
    IF i > Len(gs) THEN [passed |-> acc, fc_computed |-> seen]
    ELSE IF RemAllZero(tgt, gs[i]) THEN Stage4Loop(tgt, gs, i + 1, acc, seen)
    ELSE Stage4Loop(tgt, gs, i + 1,
                    IF FcAboveThreshold(tgt, gs[i]) THEN Append(acc, gs[i]) ELSE acc,
                    seen \cup {gs[i]})

\* mutant: Stage 4 walks the columns instead of the Stage-3 list
Stage4Genes_AllColumns(tgt, gs) == Stage4Loop(tgt, var_names, 1, <<>>, {})

Stage4Genes(tgt, gs) == Stage4Loop(tgt, gs, 1, <<>>, {})

\* ---- the scorers ----------------------------------------------------------------
SqDist(p, q) == (p[1] - q[1]) * (p[1] - q[1]) + (p[2] - q[2]) * (p[2] - q[2])

\* mutant: the index leaves out the cells of the target type
TreeCells_NonTarget ==
    {c \in Cells : InFibrotic(c) /\ obs[c].cell_type2 # ct}

\* coords_f: the cells the KDTree is built over
TreeCells == {c \in Cells : InFibrotic(c)}

\* mutant: the query answers with the first indexed point
NearestSq_First(c) == SqDist(spatial[c], spatial[SetMin(tree)])

\* tree.query(x, k=1)[0] squared, for a tree that holds a point
NearestSq(c) == SetMin({SqDist(spatial[c], spatial[f]) : f \in tree})

\* cells of S in increasing row order
RECURSIVE InRowOrder(_)
InRowOrder(S) ==
    IF S = {} THEN <<>>
    ELSE <<SetMin(S)>> \o InRowOrder(S \ {SetMin(S)})

\* mutant: the query runs for every gene
AnyExpressing_Always(tgt, g) == TRUE

\* (expr_all.loc[tgt,g]>0).any()
AnyExpressing(tgt, g) == Expressing(tgt, g) # {}

\* calc_avg_distance, for one gene: nan without an expressing target cell,
\* inf when the tree is empty, else the mean of the roots of sq, the squared
\* nearest-neighbour distances of the expressing target cells
AvgDistance(tgt, g) ==
    IF ~AnyExpressing(tgt, g) THEN [nan |-> TRUE, inf |-> FALSE, sq |-> <<>>]
    ELSE IF tree = {} THEN [nan |-> FALSE, inf |-> TRUE, sq |-> <<>>]
    ELSE LET cs == InRowOrder(Expressing(tgt, g))
         IN  [nan |-> FALSE, inf |-> FALSE,
              sq |-> [i \in 1..Len(cs) |-> NearestSq(cs[i])]]

\* mutant: the denominator is the bare count
FibFraction_NoFloor(tgt, g) ==
    <<Cardinality({c \in Expressing(tgt, g) : InFibrotic(c)}),
      Cardinality(Expressing(tgt, g))>>

\* calc_fib_fraction, for one gene: <<count, max(count expressing, 1)>>
FibFraction(tgt, g) ==
    LET n == Cardinality(Expressing(tgt, g))
    IN  <<Cardinality({c \in Expressing(tgt, g) : InFibrotic(c)}),
          IF n > 1 THEN n ELSE 1>>

calc_fib_fraction(gs, cell_type) ==
    [g \in SeqToSet(gs) |-> FibFraction(TgtMask(cell_type), g)]

\* the argument of np.log2 in the driver, for one gene:
\* (mean over the cells of type ct + 1e-9) / (mean over the cells whose niche
\* is remote_niche + 1e-9), as the two means
Log2fcArg(g) ==
    [num |-> MeanExpr(TgtMask(ct), g),
     den |-> MeanExpr({c \in Cells : obs[c].cell_niche = remote_niche}, g)]

\* ---- the input family ------------------------------------------------------------
\* Layout of the base data set: cell c lies in niche ((c - 1) mod 4) + 1 of the
\* vocabulary, its round (c - 1) div 4 is its pseudotime, every cell is of the
\* target type.
BaseNiche(c) == NicheVocab[((c - 1) % Len(NicheVocab)) + 1]
BaseRound(c) == (c - 1) \div Len(NicheVocab)
BasePt(c) == IF BaseRound(c) < MaxPt THEN BaseRound(c) ELSE MaxPt
BaseIsRemote(c) == BaseNiche(c) = ShippedRemoteNiche

Patterns == {"rise", "fall", "remote", "silent"}

PatternValue(pat, c) ==
    CASE pat = "rise"   -> IF BaseIsRemote(c)
                           THEN (IF BaseRound(c) = 0 THEN 0 ELSE 1)
                           ELSE (IF BaseRound(c) = 0 THEN 1 ELSE 3)
      [] pat = "fall"   -> IF BaseIsRemote(c)
                           THEN (IF BaseRound(c) = 0 THEN 0 ELSE 1)
                           ELSE (IF BaseRound(c) = 0 THEN 3 ELSE 1)
      [] pat = "remote" -> IF BaseIsRemote(c)
                           THEN (IF BaseRound(c) = 0 THEN 1 ELSE 2)
                           ELSE 0
      [] OTHER          -> 0

BaseObs ==
    [c \in BaseCells |-> [cell_type2 |-> ct, cell_niche |-> BaseNiche(c),
                      pseudotime |-> BasePt(c)]]

BaseExpr(pat) ==
    [c \in BaseCells |-> [g \in BaseGenes |->
        IF g = BaseVarNames[1] THEN PatternValue("rise", c)
        ELSE PatternValue(pat, c)]]

BaseSpatial == [c \in BaseCells |-> <<(c - 1) % Len(NicheVocab), BaseRound(c)>>]

ObsSpace ==
    [cell_type2 : CellTypes, cell_niche : NicheSet, pseudotime : 0..MaxPt]

ExprSpace == [BaseGenes -> 0..MaxExpr]

\* the base data set with one cell replaced by an arbitrary cell, under two
\* bins and, as in the shipped parameters, an early-phase window equal to
\* the bin count
InitData ==
    \E pat \in Patterns, c \in BaseCells, o \in ObsSpace, e \in ExprSpace :
        /\ obs = [BaseObs EXCEPT ![c] = o]
        /\ expr_all = [BaseExpr(pat) EXCEPT ![c] = e]
        /\ NUM_BINS = 2
        /\ early_phase_bins = NUM_BINS

\* the base data set under any bin count and early-phase window
InitConfig ==
    \E pat \in Patterns, nb \in -1..MaxBins, e \in 0..(MaxBins + 1) :
        /\ obs = BaseObs
        /\ expr_all = BaseExpr(pat)
        /\ NUM_BINS = nb
        /\ early_phase_bins = e

NoCalls ==
    [calc_avg_distance |-> 0, calc_fib_fraction |-> 0, KDTree |-> 0, query |-> {}]

\* the base data set in which no target cell lies in one of the niches: its
\* cells are of another type, or lie in another niche (the remote niche for
\* the cells of a fibrotic niche, the first fibrotic niche for the cells of
\* the remote niche)
InitEmpty ==
    \E pat \in Patterns, k \in 1..Len(NicheVocab),
       how \in {"retyped", "moved"} :
        /\ obs = [c \in BaseCells |->
                    IF BaseNiche(c) # NicheVocab[k] THEN BaseObs[c]
                    ELSE IF how = "retyped"
                    THEN [BaseObs[c] EXCEPT !.cell_type2 = OtherType]
                    ELSE [BaseObs[c] EXCEPT !.cell_niche =
                            IF NicheVocab[k] = ShippedRemoteNiche
                            THEN ShippedFibroticNiches[1]
                            ELSE ShippedRemoteNiche]]
        /\ expr_all = BaseExpr(pat)
        /\ NUM_BINS = 2
        /\ early_phase_bins = NUM_BINS

\* the state of a fresh kernel before the cascade is called
InitLocals ==
    /\ pc = "stage1"
    /\ genes = <<>>
    /\ genes2 = <<>>
    /\ genes3 = <<>>
    /\ passed = <<>>
    /\ fc_computed = {}
    /\ ret_genes = <<>>
    /\ dist = <<>>
    /\ frac = <<>>
    /\ log2fc = <<>>
    /\ df = <<>>
    /\ calls = NoCalls
    /\ tree = {}
    /\ gi = 1
    /\ bin_calls = <<>>
    /\ run = 1
    /\ first = [pc |-> "none", genes |-> <<>>, df |-> <<>>]

InitRun ==
    /\ var_names = BaseVarNames
    /\ spatial = BaseSpatial
    /\ fibrotic_niches = ShippedFibroticNiches
    /\ remote_niche = ShippedRemoteNiche
    /\ InitLocals

\* ---- the inputs of a direct call of the two scorers ---------------------------------
\* the lists of distinct genes a caller can pass as `genes`
GeneLists ==
    {<<>>} \cup {<<g>> : g \in BaseGenes}
           \cup {p \in BaseGenes \X BaseGenes : p[1] # p[2]}

\* the base data set with one cell of any type, niche, detection pattern and
\* position along the x axis, and any list of genes to score
InitScorers ==
    \E pat \in {"rise", "silent"}, c \in BaseCells, t \in CellTypes,
       n \in NicheSet, e \in [BaseGenes -> {0, MaxExpr}], x \in 0..MaxCoord,
       gs \in GeneLists :
        /\ var_names = BaseVarNames
        /\ obs = [BaseObs EXCEPT ![c] = [cell_type2 |-> t, cell_niche |-> n,
                                         pseudotime |-> BasePt(c)]]
        /\ expr_all = [BaseExpr(pat) EXCEPT ![c] = e]
        /\ spatial = [BaseSpatial EXCEPT ![c] = <<x, BaseRound(c)>>]
        /\ fibrotic_niches = ShippedFibroticNiches
        /\ remote_niche = ShippedRemoteNiche
        /\ NUM_BINS = ShippedNumBins
        /\ early_phase_bins = ShippedEarlyPhaseBins
        /\ pc = "dist"
        /\ ret_genes = gs
        /\ genes = <<>>
        /\ genes2 = <<>>
        /\ genes3 = <<>>
        /\ passed = <<>>
        /\ fc_computed = {}
        /\ dist = <<>>
        /\ frac = <<>>
        /\ log2fc = <<>>
        /\ df = <<>>
        /\ calls = NoCalls
        /\ tree = {}
        /\ gi = 1
        /\ bin_calls = <<>>
        /\ run = 1
        /\ first = [pc |-> "none", genes |-> <<>>, df |-> <<>>]

\* ---- the end-to-end data set: five genes, three cell types, the fibrotic ----------
\* ---- niche "Core" and the niche "Remote", under the shipped parameters ------------
ScenarioGenes == <<"GeneA", "GeneB", "GeneC", "GeneD", "GeneE", "GeneF">>
\* target cells in Core (pseudotimes 0..8) and in Remote (pseudotimes 0..6),
\* and one Core and one Remote cell of each of two other cell types
ScenarioCore == 1..9
ScenarioRemote == 10..16
ScenarioOther == 17..20
ScenarioCells == ScenarioCore \cup ScenarioRemote \cup ScenarioOther

ScenarioObs ==
    [c \in ScenarioCells |->
        [cell_type2 |-> IF c \in ScenarioCore \cup ScenarioRemote THEN ct
                        ELSE IF c <= 18 THEN "Endothelial" ELSE "Macrophage",
         cell_niche |-> IF c \in ScenarioCore \/ c \in {17, 19} THEN "Core"
                        ELSE "Remote",
         pseudotime |-> IF c \in ScenarioCore THEN c - 1
                        ELSE IF c \in ScenarioRemote THEN c - 10
                        ELSE 0]]

\* GeneA: in the target type 9 of 10 detections lie in Core, rising along
\*        pseudotime there; Core mean 6, Remote mean 1
\* GeneB: in the target type 4 of 10 detections lie in Core (the cells K),
\*        at one level everywhere
\* GeneC: not detected in the target type
\* GeneD: in the target type it is detected in every Remote cell and in the
\*        Core cells after cell d (with d = 6: 3 of 10 detections in Core);
\*        also detected in the Remote cells of the other types
\* GeneE: in the target type 2 of 9 detections lie in Core; also detected
\*        in the Core cells of the other types
\* GeneF: in the target type 2 of 9 detections lie in Core, in its two last
\*        cells at a high level (Core mean 20/9, Remote mean 1)
ScenarioValue(K, d, c, g) ==
    CASE g = "GeneA" -> IF c \in ScenarioCore THEN 3 * (((c - 1) \div 3) + 1)
                        ELSE IF c = 10 THEN 7 ELSE 0
      [] g = "GeneB" -> IF c \in K \/ c \in 10..15 \/ c \in ScenarioOther
                        THEN 1 ELSE 0
      [] g = "GeneC" -> IF c \in ScenarioOther THEN 2 ELSE 0
      [] g = "GeneD" -> IF (c \in ScenarioCore /\ c > d) \/ c \in ScenarioRemote
                             \/ c \in {18, 20}
                        THEN 1 ELSE 0
      [] g = "GeneE" -> IF c \in 1..2 \/ c \in ScenarioRemote \/ c \in {17, 19}
                        THEN 1 ELSE 0
      [] g = "GeneF" -> IF c \in 8..9 THEN 10
                        ELSE IF c \in ScenarioRemote THEN 1 ELSE 0

InitScenario ==
    \E K \in {S \in SUBSET ScenarioCore : Cardinality(S) = 4}, d \in 6..9 :
        /\ var_names = ScenarioGenes
        /\ obs = ScenarioObs
        /\ expr_all = [c \in ScenarioCells |->
                         [g \in SeqToSet(ScenarioGenes) |-> ScenarioValue(K, d, c, g)]]
        /\ spatial = [c \in ScenarioCells |-> <<c % 5, c \div 5>>]
        /\ fibrotic_niches = <<"Core">>
        /\ remote_niche = "Remote"
        /\ NUM_BINS = ShippedNumBins
        /\ early_phase_bins = ShippedEarlyPhaseBins
        /\ InitLocals

\* ten target cells and two cells of another type in the base layout: the
\* first gene rises, the second is detected at level v in the first k
\* target cells and at level w in the two other cells
DetectCells == 1..12
DetectTarget == 1..10

InitDetect ==
    \E k \in 0..3, v \in 1..MaxExpr, w \in {0, 1} :
        /\ var_names = BaseVarNames
        /\ obs = [c \in DetectCells |->
                    [cell_type2 |-> IF c \in DetectTarget THEN ct ELSE OtherType,
                     cell_niche |-> BaseNiche(c),
                     pseudotime |-> BasePt(c)]]
        /\ expr_all = [c \in DetectCells |-> [g \in BaseGenes |->
                          IF g = BaseVarNames[1] THEN PatternValue("rise", c)
                          ELSE IF c \in DetectTarget THEN (IF c <= k THEN v ELSE 0)
                          ELSE w]]
        /\ spatial = [c \in DetectCells |->
                        <<(c - 1) % Len(NicheVocab), BaseRound(c)>>]
        /\ fibrotic_niches = ShippedFibroticNiches
        /\ remote_niche = ShippedRemoteNiche
        /\ NUM_BINS = 2
        /\ early_phase_bins = NUM_BINS
        /\ InitLocals

Init == ((InitData \/ InitConfig \/ InitEmpty) /\ InitRun) \/ InitDetect

\* ---- filter_genes_by_conditions(adata, ct), stage by stage -----------------------
Stage1 ==
    /\ pc = "stage1"
    /\ genes' = Stage1Genes(TgtMask(ct))
    /\ pc' = "stage2"
    /\ UNCHANGED <<inputs, kernel, tree, gi, bin_calls, genes2, genes3, passed, fc_computed, ret_genes,
                   dist, frac, log2fc, df, calls>>

Stage2 ==
    /\ pc = "stage2"
    /\ genes2' = Stage2Genes(TgtMask(ct), genes)
    /\ pc' = "stage3"
    /\ UNCHANGED <<inputs, kernel, tree, gi, bin_calls, genes, genes3, passed, fc_computed, ret_genes,
                   dist, frac, log2fc, df, calls>>

\* mutant: the binner writes its pt_bin column into adata.obs
Stage3_BinsInPlace ==
    /\ pc = "stage3"
    /\ LET r == Stage3Genes(TgtMask(ct), genes2)
       IN  /\ bin_calls' = r.bin_calls
           /\ obs' = IF r.bin_calls = <<>> THEN obs
                     ELSE [c \in Cells |->
                             [cell_type2 |-> obs[c].cell_type2,
                              cell_niche |-> obs[c].cell_niche,
                              pseudotime |-> obs[c].pseudotime,
                              pt_bin |-> 0]]
           /\ IF r.raised
              THEN /\ pc' = "error"
                   /\ UNCHANGED genes3
              ELSE /\ pc' = "stage4"
                   /\ genes3' = r.genes3
    /\ UNCHANGED <<var_names, expr_all, spatial, fibrotic_niches, remote_niche,
                   NUM_BINS, early_phase_bins, kernel, tree, gi, genes, genes2,
                   passed, fc_computed, ret_genes, dist, frac, log2fc, df, calls>>

\* an exception in get_grouped_data or np.gradient leaves the function and
\* ends the run of the cell
Stage3 ==
    /\ pc = "stage3"
    /\ LET r == Stage3Genes(TgtMask(ct), genes2)
       IN  /\ bin_calls' = r.bin_calls
           /\ IF r.raised
              THEN /\ pc' = "error"
                   /\ UNCHANGED genes3
              ELSE /\ pc' = "stage4"
                   /\ genes3' = r.genes3
    /\ UNCHANGED <<inputs, kernel, tree, gi, genes, genes2, passed, fc_computed, ret_genes,
                   dist, frac, log2fc, df, calls>>

Stage4 ==
    /\ pc = "stage4"
    /\ LET r == Stage4Genes(TgtMask(ct), genes3)
       IN  /\ passed' = r.passed
           /\ fc_computed' = r.fc_computed
    /\ pc' = "return"
    /\ UNCHANGED <<inputs, kernel, tree, gi, bin_calls, genes, genes2, genes3, ret_genes,
                   dist, frac, log2fc, df, calls>>

\* return passed;  genes = filter_genes_by_conditions(adata, ct)
Return ==
    /\ pc = "return"
    /\ ret_genes' = passed
    /\ pc' = "driver"
    /\ UNCHANGED <<inputs, kernel, tree, gi, bin_calls, genes, genes2, genes3, passed, fc_computed,
                   dist, frac, log2fc, df, calls>>

\* ---- the Figure 6A driver cell ------------------------------------------------------
\* mutant: the body runs whatever the list holds
DriverTest_NoGuard ==
    /\ pc = "driver"
    /\ pc' = "dist"
    /\ UNCHANGED <<inputs, kernel, tree, gi, bin_calls, genes, genes2, genes3, passed, fc_computed,
                   ret_genes, dist, frac, log2fc, df, calls>>

\* if genes:  (an empty list skips the whole body)
DriverTest ==
    /\ pc = "driver"
    /\ pc' = IF ret_genes # <<>> THEN "dist" ELSE "done"
    /\ UNCHANGED <<inputs, kernel, tree, gi, bin_calls, genes, genes2, genes3, passed, fc_computed,
                   ret_genes, dist, frac, log2fc, df, calls>>

\* dist = calc_avg_distance(adata, genes, ct), entry: the masks, the
\* coordinates and tree = KDTree(coords_f); dist holds the entries of the
\* Series under construction
DistBuild ==
    /\ pc = "dist"
    /\ tree' = TreeCells
    /\ calls' = [calls EXCEPT !.calc_avg_distance = @ + 1, !.KDTree = @ + 1]
    /\ dist' = <<>>
    /\ gi' = 1
    /\ pc' = "dist_gene"
    /\ UNCHANGED <<inputs, kernel, bin_calls, genes, genes2, genes3, passed,
                   fc_computed, ret_genes, frac, log2fc, df>>

\* mutant: the index is built anew for every gene
DistGene_Rebuild ==
    /\ pc = "dist_gene"
    /\ gi <= Len(ret_genes)
    /\ LET g == ret_genes[gi]
       IN  /\ dist' = (g :> AvgDistance(TgtMask(ct), g)) @@ dist
           /\ calls' = [calls EXCEPT
                          !.KDTree = @ + 1,
                          !.query = IF AnyExpressing(TgtMask(ct), g)
                                    THEN @ \cup {g} ELSE @]
    /\ tree' = TreeCells
    /\ gi' = gi + 1
    /\ UNCHANGED <<inputs, kernel, bin_calls, pc, genes, genes2, genes3,
                   passed, fc_computed, ret_genes, frac, log2fc, df>>

\* mutant: the genes are scored against the cells of another type
DistGene_OtherType ==
    /\ pc = "dist_gene"
    /\ gi <= Len(ret_genes)
    /\ LET g == ret_genes[gi]
       IN  /\ dist' = (g :> AvgDistance(TgtMask(OtherType), g)) @@ dist
           /\ calls' = [calls EXCEPT
                          !.query = IF AnyExpressing(TgtMask(OtherType), g)
                                    THEN @ \cup {g} ELSE @]
    /\ gi' = gi + 1
    /\ UNCHANGED <<inputs, kernel, tree, bin_calls, pc, genes, genes2, genes3,
                   passed, fc_computed, ret_genes, frac, log2fc, df>>

\* one entry of the comprehension: tree.query(...)[0].mean() if a target cell
\* expresses g, else np.nan
DistGene ==
    /\ pc = "dist_gene"
    /\ gi <= Len(ret_genes)
    /\ LET g == ret_genes[gi]
       IN  /\ dist' = (g :> AvgDistance(TgtMask(ct), g)) @@ dist
           /\ calls' = [calls EXCEPT
                          !.query = IF AnyExpressing(TgtMask(ct), g)
                                    THEN @ \cup {g} ELSE @]
    /\ gi' = gi + 1
    /\ UNCHANGED <<inputs, kernel, tree, bin_calls, pc, genes, genes2, genes3,
                   passed, fc_computed, ret_genes, frac, log2fc, df>>

\* return pd.Series({...})
DistReturn ==
    /\ pc = "dist_gene"
    /\ gi > Len(ret_genes)
    /\ pc' = "frac"
    /\ UNCHANGED <<inputs, kernel, tree, gi, bin_calls, genes, genes2, genes3,
                   passed, fc_computed, ret_genes, dist, frac, log2fc, df,
                   calls>>

\* frac = calc_fib_fraction(adata, genes, ct)
DriverFrac ==
    /\ pc = "frac"
    /\ frac' = calc_fib_fraction(ret_genes, ct)
    /\ calls' = [calls EXCEPT !.calc_fib_fraction = @ + 1]
    /\ pc' = "log2fc"
    /\ UNCHANGED <<inputs, kernel, tree, gi, bin_calls, genes, genes2, genes3, passed, fc_computed,
                   ret_genes, dist, log2fc, df>>

\* log2fc = np.log2(...)
DriverLog2fc ==
    /\ pc = "log2fc"
    /\ log2fc' = [g \in SeqToSet(ret_genes) |-> Log2fcArg(g)]
    /\ pc' = "table"
    /\ UNCHANGED <<inputs, kernel, tree, gi, bin_calls, genes, genes2, genes3, passed, fc_computed,
                   ret_genes, dist, frac, df, calls>>

\* df = pd.DataFrame({...}): one row per gene, in the order of genes
DriverTable ==
    /\ pc = "table"
    /\ df' = [i \in 1..Len(ret_genes) |->
                [gene |-> ret_genes[i],
                 log2_fc |-> log2fc[ret_genes[i]],
                 avg_distance |-> dist[ret_genes[i]],
                 fib_fraction |-> frac[ret_genes[i]]]]
    /\ pc' = "done"
    /\ UNCHANGED <<inputs, kernel, tree, gi, bin_calls, genes, genes2, genes3, passed, fc_computed,
                   ret_genes, dist, frac, log2fc, calls>>

Next ==
    \/ Stage1
    \/ Stage2
    \/ Stage3
    \/ Stage4
    \/ Return
    \/ DriverTest
    \/ DistBuild
    \/ DistGene
    \/ DistReturn
    \/ DriverFrac
    \/ DriverLog2fc
    \/ DriverTable

Spec == Init /\ [][Next]_vars

\* ---- a second run of the same cells in the same kernel ---------------------------
\* the cells are run again once the first run has ended; the kernel keeps
\* every global of the first run, whose outcome is noted in `first`
Rerun ==
    /\ pc \in {"done", "error"}
    /\ run = 1
    /\ run' = 2
    /\ first' = [pc |-> pc, genes |-> ret_genes, df |-> df]
    /\ pc' = "stage1"
    /\ UNCHANGED <<inputs, tree, gi, bin_calls, genes, genes2, genes3, passed,
                   fc_computed, ret_genes, dist, frac, log2fc, df, calls>>

NextRerun ==
    \/ Stage1
    \/ Stage2
    \/ Stage3
    \/ Stage4
    \/ Return
    \/ DriverTest
    \/ DistBuild
    \/ DistGene
    \/ DistReturn
    \/ DriverFrac
    \/ DriverLog2fc
    \/ DriverTable
    \/ Rerun

InitRerun == (InitConfig \/ InitEmpty) /\ InitRun

SpecRerun == InitRerun /\ [][NextRerun]_vars

\* dist = calc_avg_distance(adata, genes, ct) and then
\* frac = calc_fib_fraction(adata, genes, ct), for any list of genes
NextScorers ==
    \/ DistBuild
    \/ DistGene
    \/ DistReturn
    \/ DriverFrac

SpecScorers == InitScorers /\ [][NextScorers]_vars

\* the same run on the end-to-end data set
SpecScenario == InitScenario /\ [][Next]_vars

\* ---- properties -----------------------------------------------------------------------
AfterStage3 == pc \in {"stage4", "return", "driver", "dist", "dist_gene", "frac", "log2fc",
                       "table", "done"}
AfterStage4 == pc \in {"return", "driver", "dist", "dist_gene", "frac", "log2fc",
                       "table", "done"}
Returned == pc \in {"driver", "dist", "dist_gene", "frac", "log2fc", "table", "done"}

\* C1: the returned list is within the Stage-4 list, which is within the
\* Stage-3 list, within the Stage-2 list, within the Stage-1 list, within
\* the gene universe: no stage re-admits a gene an earlier stage rejected.
C1_MonotoneFiltering ==
    /\ SeqToSet(ret_genes) \subseteq SeqToSet(passed)
    /\ SeqToSet(passed) \subseteq SeqToSet(genes3)
    /\ SeqToSet(genes3) \subseteq SeqToSet(genes2)
    /\ SeqToSet(genes2) \subseteq SeqToSet(genes)
    /\ SeqToSet(genes) \subseteq GeneSet
    /\ (Returned => ret_genes = passed)

\* a returned run in which Stage 1 kept both genes, a later stage rejected
\* one of them and the other came out
C1_Witness ==
    /\ pc = "done"
    /\ Len(genes) = 2
    /\ Len(genes3) = 1
    /\ Len(ret_genes) = 1

\* the sum of the early-phase derivative samples of gene g over the target
\* cells of one niche (times a positive constant); only for a subset that
\* can be binned into NUM_BINS >= 2 bins
EarlySum(g, niche) ==
    LET m == {c \in Cells : obs[c].cell_type2 = ct /\ obs[c].cell_niche = niche}
        r == get_grouped_data(m, NUM_BINS)
        d == gradient(gaussian_filter1d(BinValues(r.grp, g, NUM_BINS), NUM_BINS),
                      NUM_BINS)
    IN  SumOver(SliceTo(early_phase_bins, NUM_BINS), d)

Binnable(niche) ==
    LET m == {c \in Cells : obs[c].cell_type2 = ct /\ obs[c].cell_niche = niche}
    IN  m # {} /\ NUM_BINS >= 2 /\ PtMax(m) > PtMin(m)

\* gene g is early-rising in the niche: the mean of its early-phase
\* derivative samples there is strictly positive
EarlyRising(g, niche) ==
    /\ Binnable(niche)
    /\ SliceTo(early_phase_bins, NUM_BINS) # {}
    /\ EarlySum(g, niche) > 0

EarlyDeclining(g, niche) ==
    /\ Binnable(niche)
    /\ SliceTo(early_phase_bins, NUM_BINS) # {}
    /\ EarlySum(g, niche) < 0

\* C2: a gene of the Stage-2 list survives Stage 3 if and only if it is
\* early-rising in every fibrotic niche, each niche evaluated on its own
\* cells.
C2_Stage3Conjunction ==
    pc = "stage4" =>
        \A i \in 1..Len(genes2) :
            (genes2[i] \in SeqToSet(genes3))
              <=> (\A k \in 1..Len(fibrotic_niches) :
                      EarlyRising(genes2[i], fibrotic_niches[k]))

\* Stage-4 decision for gene g over the populations fib and rem
FoldChangeKeeps(fib, rem, g) ==
    /\ \E c \in rem : expr_all[c][g] # 0
    /\ fib # {}
    /\ SumOver(fib, [c \in Cells |-> expr_all[c][g]]) * Cardinality(rem)
         > fold_change_threshold
             * SumOver(rem, [c \in Cells |-> expr_all[c][g]]) * Cardinality(fib)

AllFibroticCells == {c \in Cells : obs[c].cell_niche \in SeqToSet(fibrotic_niches)}
AllRemoteCells == {c \in Cells : obs[c].cell_niche = remote_niche}
TargetFibroticCells == {c \in AllFibroticCells : obs[c].cell_type2 = ct}
TargetRemoteCells == {c \in AllRemoteCells : obs[c].cell_type2 = ct}

\* C3 (as stated): Stage 4 compares the mean over every cell in the fibrotic
\* niches with the mean over every cell in the remote niche, of any cell type.
C3_Stage4AllCells ==
    AfterStage4 =>
        \A i \in 1..Len(genes3) :
            (genes3[i] \in SeqToSet(passed))
              <=> FoldChangeKeeps(AllFibroticCells, AllRemoteCells, genes3[i])

\* C3 (amended): Stage 4 compares the mean over the target-cell-type cells in
\* the fibrotic niches with the mean over the target-cell-type cells in the
\* remote niche.
C3_Stage4TargetCells ==
    AfterStage4 =>
        \A i \in 1..Len(genes3) :
            (genes3[i] \in SeqToSet(passed))
              <=> FoldChangeKeeps(TargetFibroticCells, TargetRemoteCells, genes3[i])

\* Stage 4 ran on a gene for which the two populations decide differently
C3_Witness ==
    /\ AfterStage4
    /\ \E i \in 1..Len(genes3) :
        FoldChangeKeeps(TargetFibroticCells, TargetRemoteCells, genes3[i])
          # FoldChangeKeeps(AllFibroticCells, AllRemoteCells, genes3[i])

\* the mean of gene g over a non-empty population is exactly 0
MeanIsZero(S, g) ==
    S # {} /\ SumOver(S, [c \in Cells |-> expr_all[c][g]]) = 0

\* C4: a gene that reaches Stage 4 with a remote-niche mean of exactly 0
\* (over the target cells there, or over all cells there) is rejected, no
\* ratio is computed for it, and it is not in the output.
C4_ZeroRemoteRejected ==
    AfterStage4 =>
        \A i \in 1..Len(genes3) :
            (MeanIsZero(TargetRemoteCells, genes3[i])
               \/ MeanIsZero(AllRemoteCells, genes3[i]))
              => /\ genes3[i] \notin SeqToSet(passed)
                 /\ genes3[i] \notin fc_computed
                 /\ genes3[i] \notin SeqToSet(ret_genes)

\* Stage 4 ran on a gene with remote mean 0 whose fibrotic mean is positive
C4_Witness ==
    /\ pc = "done"
    /\ \E i \in 1..Len(genes3) :
        /\ MeanIsZero(TargetRemoteCells, genes3[i])
        /\ \E c \in TargetFibroticCells : expr_all[c][genes3[i]] > 0

\* the configuration the cascade can work with: a positive bin count and an
\* early-phase window within it
ConfigPossible == NUM_BINS >= 1 /\ early_phase_bins <= NUM_BINS

\* C5: per-gene failures never abort the batch: under a possible
\* configuration the cascade never ends in an exception, whatever the shape
\* of the (target cell type, fibrotic niche) subsets.
C5_BatchNeverAborts ==
    (ConfigPossible /\ NUM_BINS >= 2) => pc # "error"

\* C6: an impossible configuration is rejected before any per-gene work
\* starts, and the run yields no gene list and no per-gene table.
C6_ImpossibleConfigRejected ==
    ~ConfigPossible =>
        /\ pc \in {"stage1", "error"}
        /\ genes = <<>>
        /\ ~Returned
        /\ df = <<>>

\* the (target cell type, fibrotic niche) subsets Stage 3 hands to the binner
Stage3Subsets ==
    {NicheMask(TgtMask(ct), fibrotic_niches[k]) : k \in 1..Len(fibrotic_niches)}
      \ {{}}

\* C7: for every non-empty subset and bin count N >= 1, get_grouped_data
\* returns N bin rows and N centers, rows of bins without cells are zero,
\* the minimum pseudotime is in the first bin and the maximum in the last.
C7_AlwaysNBins ==
    NUM_BINS >= 1 =>
        \A m \in Stage3Subsets :
            LET r == get_grouped_data(m, NUM_BINS)
            IN  /\ ~r.raised
                /\ DOMAIN r.grp = 0..(NUM_BINS - 1)
                /\ DOMAIN r.centers = 0..(NUM_BINS - 1)
                /\ \A b \in 0..(NUM_BINS - 1) :
                      (\A c \in m : CutLabel(m, NUM_BINS, c) # b)
                        => \A g \in GeneSet : r.grp[b][g][1] = 0
                /\ \A c \in m :
                      /\ PtOf(c) = PtMin(m) => CutLabel(m, NUM_BINS, c) = 0
                      /\ PtOf(c) = PtMax(m)
                           => CutLabel(m, NUM_BINS, c) = NUM_BINS - 1

\* position of gene g in the list s (0 when absent)
Pos(s, g) == IF \E i \in 1..Len(s) : s[i] = g
             THEN CHOOSE i \in 1..Len(s) : s[i] = g
             ELSE 0

\* the list s has no duplicate and keeps the relative order of the list t
KeepsOrderOf(s, t) ==
    \A i, j \in 1..Len(s) :
        i < j => /\ Pos(t, s[i]) > 0
                 /\ Pos(t, s[i]) < Pos(t, s[j])

\* C8: the returned list keeps the order of the Stage-1 list, which is the
\* column order; no stage reorders or duplicates genes.
C8_OrderPreserved ==
    /\ KeepsOrderOf(genes, var_names)
    /\ KeepsOrderOf(genes2, genes)
    /\ KeepsOrderOf(genes3, genes)
    /\ KeepsOrderOf(passed, genes)
    /\ KeepsOrderOf(ret_genes, genes)

\* two genes came through all four stages
C8_Witness == pc = "done" /\ Len(ret_genes) = 2

\* C9: when the cascade returns the empty list, the driver finishes without
\* an error and without running a scorer or building the spatial index.
C9_EmptyResultHandled ==
    (Returned /\ ret_genes = <<>>) =>
        /\ pc \in {"driver", "done"}
        /\ calls = NoCalls
        /\ df = <<>>

\* the driver finished on an empty list although Stage 1 kept a gene
C9_Witness == pc = "done" /\ ret_genes = <<>> /\ genes # <<>>

\* the quotient a[1]/a[2] : b[1]/b[2] equals the quotient of the means of
\* gene g over the populations fib and rem
SameRatio(a, b, fib, rem, g) ==
    a[1] * b[2] * SumOver(rem, [c \in Cells |-> expr_all[c][g]]) * Cardinality(fib)
      = b[1] * a[2] * SumOver(fib, [c \in Cells |-> expr_all[c][g]]) * Cardinality(rem)

\* C10: the table's log2 fold change of a gene is the log2 of the fibrotic
\* mean over the remote mean, over the populations Stage 4 compares (the
\* target cells of the two populations, or all their cells).
C10_Log2fcIsFibroticVsRemote ==
    pc = "done" =>
        \A i \in 1..Len(df) :
            \/ SameRatio(df[i].log2_fc.num, df[i].log2_fc.den,
                         TargetFibroticCells, TargetRemoteCells, df[i].gene)
            \/ SameRatio(df[i].log2_fc.num, df[i].log2_fc.den,
                         AllFibroticCells, AllRemoteCells, df[i].gene)

\* ---- the end-to-end scenario -------------------------------------------------------
AfterStage2 == pc \notin {"stage1", "stage2"}

\* the detections of gene g in the target type, and those in fibrotic niches
TargetDetections(g) == {c \in Cells : obs[c].cell_type2 = ct /\ expr_all[c][g] > 0}
FibroticDetections(g) ==
    {c \in TargetDetections(g) : obs[c].cell_niche \in SeqToSet(fibrotic_niches)}

DistanceToNearest(c, d) ==
    /\ \E f \in AllFibroticCells : SqDist(spatial[c], spatial[f]) = d
    /\ \A f \in AllFibroticCells : SqDist(spatial[c], spatial[f]) >= d

\* C12: for a gene that no target cell expresses, calc_avg_distance reports
\* an undefined distance (NaN, not zero, not infinite) and issues no query
\* of the index for that gene.
C12_NoExpressingCellUndefined ==
    \A g \in DOMAIN dist :
        TargetDetections(g) = {}
          => /\ dist[g] = [nan |-> TRUE, inf |-> FALSE, sq |-> <<>>]
             /\ g \notin calls.query

\* both genes were scored: one without an expressing target cell, with an
\* undefined distance and no query; the other with a query
C12_Witness ==
    /\ pc = "frac"
    /\ Len(ret_genes) = 2
    /\ \E g \in DOMAIN dist, h \in DOMAIN dist :
          /\ TargetDetections(g) = {}
          /\ dist[g].nan
          /\ calls.query = {h}

\* C13: one invocation of calc_avg_distance builds the index exactly once,
\* before any gene is scored, over all cells of any type in the fibrotic
\* niches; the per-gene steps leave that index in place, whatever the
\* number of genes.
C13_IndexBuiltOnce ==
    /\ calls.KDTree = calls.calc_avg_distance
    /\ calls.calc_avg_distance = 0 => (DOMAIN dist = {} /\ calls.query = {})
    /\ calls.calc_avg_distance > 0
         => /\ calls.KDTree = 1
            /\ tree = AllFibroticCells

\* a call for two genes has returned: both were queried, the index holds a
\* cell of another type, and it was built once
C13_Witness ==
    /\ pc = "frac"
    /\ Len(ret_genes) = 2
    /\ calls.query = SeqToSet(ret_genes)
    /\ \E c \in tree : obs[c].cell_type2 # ct
    /\ calls.KDTree = 1

\* C14: for a gene that exactly one target cell expresses, the reported
\* mean distance is the distance from that cell to the nearest of all
\* cells in the fibrotic niches.
C14_SingleCellNearest ==
    \A g \in DOMAIN dist : \A c \in Cells :
        TargetDetections(g) = {c}
          => /\ ~dist[g].nan
             /\ ~dist[g].inf
             /\ Len(dist[g].sq) = 1
             /\ DistanceToNearest(c, dist[g].sq[1])

\* a gene whose one expressing target cell lies outside the fibrotic niches,
\* more than one step from the nearest fibrotic cell and farther still from
\* the first one
C14_Witness ==
    /\ pc = "frac"
    /\ \E g \in DOMAIN dist : \E c \in Cells :
          /\ TargetDetections(g) = {c}
          /\ c \notin AllFibroticCells
          /\ dist[g].sq[1] > 1
          /\ SqDist(spatial[c], spatial[SetMin(AllFibroticCells)]) > dist[g].sq[1]

\* C15: calc_fib_fraction returns, per gene, the number of target cells
\* that express it and lie in a fibrotic niche over the larger of 1 and the
\* number of target cells that express it: the denominator is never zero
\* and a gene without an expressing target cell gets 0.
C15_FibFractionFormula ==
    calls.calc_fib_fraction > 0 =>
        /\ DOMAIN frac = SeqToSet(ret_genes)
        /\ \A g \in DOMAIN frac :
              LET n == Cardinality(TargetDetections(g))
                  k == Cardinality(FibroticDetections(g))
              IN  /\ frac[g][2] >= 1
                  /\ frac[g] = <<k, IF n = 0 THEN 1 ELSE n>>
                  /\ n = 0 => frac[g] = <<0, 1>>

\* the fractions of two genes: one without an expressing target cell, one
\* expressed both inside and outside the fibrotic niches
C15_Witness ==
    /\ pc = "log2fc"
    /\ \E g \in DOMAIN frac, h \in DOMAIN frac :
          /\ TargetDetections(g) = {}
          /\ frac[g] = <<0, 1>>
          /\ 0 < frac[h][1]
          /\ frac[h][1] < frac[h][2]

\* ---- repeated runs and the inputs ---------------------------------------------------
\* C16: a second run of the cascade and the two scorers on the same inputs
\* and parameters ends as the first one did, with the same returned list
\* and the same per-gene table: nothing the first run left behind enters.
C16_RerunIdentical ==
    (run = 2 /\ pc \in {"done", "error"})
      => /\ pc = first.pc
         /\ ret_genes = first.genes
         /\ df = first.df

\* a second run has ended with a non-empty table
C16_Witness ==
    /\ run = 2
    /\ pc = "done"
    /\ Len(df) >= 1
    /\ df = first.df

\* C17: no step of the cascade, the binner or the scorers changes the
\* expression table, the cell metadata, the coordinates or the parameters.
C17_InputsUnchanged == [][inputs' = inputs]_vars

\* the cascade, with its binning calls, and both scorers have run
C17_Witness ==
    /\ pc = "done"
    /\ bin_calls # <<>>
    /\ calls.calc_avg_distance = 1
    /\ calls.calc_fib_fraction = 1
    /\ Len(df) >= 1

\* ---- Stage 3 stops at the first failing niche ---------------------------------------
NicheTargetCells(k) ==
    {c \in Cells : obs[c].cell_type2 = ct /\ obs[c].cell_niche = fibrotic_niches[k]}

\* C18: get_grouped_data runs for a gene on a niche only if that niche holds
\* a target cell and, in every earlier niche of the list, the gene had
\* target cells and was early-rising: an empty niche or a niche in which the
\* gene is not early-rising ends the evaluation of the gene, with no pass
\* over that empty niche or any later niche.
C18_FailFast ==
    pc \in {"stage4", "error"} =>
        \A n \in 1..Len(bin_calls) :
            LET g == bin_calls[n][1]
                k == bin_calls[n][2]
            IN  /\ NicheTargetCells(k) # {}
                /\ \A j \in 1..(k - 1) :
                      /\ NicheTargetCells(j) # {}
                      /\ EarlyRising(g, fibrotic_niches[j])

\* ---- the two thresholds ----------------------------------------------------------------
\* C19: Stage 2 keeps a gene of the Stage-1 list if and only if, among the
\* target cells that detect it, the share lying in fibrotic niches is at
\* least the localization threshold (a share equal to it is kept); cells
\* of other types do not count.
C19_Stage2Threshold ==
    AfterStage2 =>
        \A i \in 1..Len(genes) :
            (genes[i] \in SeqToSet(genes2))
              <=> /\ TargetDetections(genes[i]) # {}
                  /\ Cardinality(FibroticDetections(genes[i])) * fib_fraction_threshold[2]
                       >= fib_fraction_threshold[1]
                            * Cardinality(TargetDetections(genes[i]))

\* the detections of gene g in cells of any type
AllDetections(g) == {c \in Cells : expr_all[c][g] > 0}

\* Stage 2 has run: it kept GeneD, whose share is exactly the threshold
\* among the target cells and below it among all cells, and rejected
\* GeneE, whose share is below the threshold among the target cells and
\* above it among all cells
C19_Witness ==
    /\ pc = "stage3"
    /\ "GeneD" \in SeqToSet(genes2)
    /\ 10 * Cardinality(FibroticDetections("GeneD"))
         = 3 * Cardinality(TargetDetections("GeneD"))
    /\ 10 * Cardinality(AllDetections("GeneD") \cap AllFibroticCells)
         < 3 * Cardinality(AllDetections("GeneD"))
    /\ "GeneE" \in SeqToSet(genes) \ SeqToSet(genes2)
    /\ 10 * Cardinality(AllDetections("GeneE") \cap AllFibroticCells)
         > 3 * Cardinality(AllDetections("GeneE"))

\* the ratio of the Stage-4 means of gene g against the fold-change
\* threshold; the 1e-9 of the denominator is below the granularity of the
\* means, so a quotient of exactly the threshold counts as "equal"
RatioOrder(g) ==
    LET a == SumOver(TargetFibroticCells, [c \in Cells |-> expr_all[c][g]])
               * Cardinality(TargetRemoteCells)
        b == fold_change_threshold
               * SumOver(TargetRemoteCells, [c \in Cells |-> expr_all[c][g]])
               * Cardinality(TargetFibroticCells)
    IN  IF a > b THEN "above" ELSE IF a = b THEN "equal" ELSE "below"

\* C20: a gene that reaches Stage 4 with a remote mean that is not zero is
\* kept if and only if its fibrotic mean over (its remote mean + 1e-9) is
\* strictly above the fold-change threshold; a ratio equal to the
\* threshold is rejected.
C20_StrictFoldChange ==
    AfterStage4 =>
        \A i \in 1..Len(genes3) :
            (\E c \in TargetRemoteCells : expr_all[c][genes3[i]] > 0)
              => /\ (genes3[i] \in SeqToSet(passed))
                      <=> RatioOrder(genes3[i]) = "above"
                 /\ RatioOrder(genes3[i]) = "equal"
                      => genes3[i] \notin SeqToSet(passed)

\* Stage 4 ran on a gene whose ratio is exactly the threshold and rejected
\* it
C20_Witness ==
    /\ AfterStage4
    /\ \E i \in 1..Len(genes3) :
          /\ \E c \in TargetRemoteCells : expr_all[c][genes3[i]] > 0
          /\ RatioOrder(genes3[i]) = "equal"
          /\ genes3[i] \in fc_computed
          /\ genes3[i] \notin SeqToSet(passed)

\* ---- Stage 1 -------------------------------------------------------------------------
TargetCells == {c \in Cells : obs[c].cell_type2 = ct}

\* n (n - 1) times the sample variance of gene g over the cells S
SquaredDeviations(S, g) ==
    Cardinality(S) * SumOver(S, [c \in Cells |-> expr_all[c][g] * expr_all[c][g]])
      - SumOver(S, [c \in Cells |-> expr_all[c][g]])
          * SumOver(S, [c \in Cells |-> expr_all[c][g]])

\* the standard deviation of gene g over the cells S is defined and strictly
\* above min_std: variance > min_std^2, the quotient taken the other way
\* round to stay within the integers
StdExceedsMin(S, g) ==
    /\ Cardinality(S) >= 2
    /\ SquaredDeviations(S, g) > 0
    /\ min_std[2] * min_std[2]
         > (min_std[1] * min_std[1] * Cardinality(S) * (Cardinality(S) - 1))
             \div SquaredDeviations(S, g)

ScaledEdge(m, N, i) == N * PtMin(m) + i * (PtMax(m) - PtMin(m))

\* the pseudotime of cell c lies in bin b: at the lowest edge for bin 0, else
\* above the left edge of b and at most its right edge
LiesInBin(m, N, c, b) ==
    \/ (b = 0 /\ PtOf(c) = PtMin(m))
    \/ (ScaledEdge(m, N, b) < N * PtOf(c) /\ N * PtOf(c) <= ScaledEdge(m, N, b + 1))

\* C22: for every non-empty subset and bin count N >= 1 the binner puts each
\* cell of the subset into exactly one of the N equal-width bins spanning
\* the subset's pseudotimes, the lowest edge into bin 0 and an interior
\* edge into the bin on its left, the cell's values entering the mean of
\* that bin alone, and returns the midpoints of consecutive edges as the
\* bin centers.
C22_BinnerPlacement ==
    (pc \in {"stage4", "error"} /\ NUM_BINS >= 1) =>
        \A m \in Stage3Subsets :
            LET r == get_grouped_data(m, NUM_BINS)
            IN  /\ ~r.raised
                /\ \A c \in m :
                      /\ CutLabel(m, NUM_BINS, c) \in 0..(NUM_BINS - 1)
                      /\ \A b \in 0..(NUM_BINS - 1) :
                            LiesInBin(m, NUM_BINS, c, b)
                              <=> b = CutLabel(m, NUM_BINS, c)
                /\ \A b \in 0..(NUM_BINS - 1) : \A g \in GeneSet :
                      LET inbin == {c \in m : LiesInBin(m, NUM_BINS, c, b)}
                      IN  inbin # {}
                            => r.grp[b][g]
                                 = <<SumOver(inbin, [c \in Cells |-> expr_all[c][g]]),
                                     Cardinality(inbin)>>
                /\ \A b \in 0..(NUM_BINS - 1) :
                      2 * NUM_BINS * r.centers[b][1]
                        = r.centers[b][2] * (ScaledEdge(m, NUM_BINS, b)
                                               + ScaledEdge(m, NUM_BINS, b + 1))

\* ---- the early-phase test --------------------------------------------------------------
\* C23: a pass of Stage 3 over a niche lets the gene through if and only if
\* the mean of the first early_phase_bins samples of the derivative of its
\* smoothed binned trajectory there is strictly positive; a mean of 0 or
\* below ends the gene's evaluation.
C23_EarlyRisingStrict ==
    pc \in {"stage4", "error"} =>
        \A n \in 1..Len(bin_calls) :
            LET g == bin_calls[n][1]
                k == bin_calls[n][2]
                res == bin_calls[n][3]
            IN  res # "raise"
                  => /\ (res = "next") <=> EarlyRising(g, fibrotic_niches[k])
                     /\ (res = "break") <=> ~EarlyRising(g, fibrotic_niches[k])

\* ---- the scorers on the survivors ---------------------------------------------------
\* C24: every gene of the cascade output, scored by calc_fib_fraction for
\* the same target cell type, has a niche fraction of at least
\* fib_fraction_threshold, and that fraction is the Stage-2 fraction of the
\* gene: expressing target cells in fibrotic niches over expressing target
\* cells.
C24_SurvivorFraction ==
    pc \in {"log2fc", "table", "done"} =>
        \A g \in SeqToSet(ret_genes) :
            /\ frac[g][1] * fib_fraction_threshold[2]
                 >= fib_fraction_threshold[1] * frac[g][2]
            /\ TargetDetections(g) # {}
                 => /\ frac[g][1] = Cardinality(FibroticDetections(g))
                    /\ frac[g][2] = Cardinality(TargetDetections(g))

\* the run scored a survivor that some target cell outside the fibrotic
\* niches expresses
C24_Witness ==
    /\ pc = "done"
    /\ \E g \in SeqToSet(ret_genes) :
          /\ frac[g][1] < frac[g][2]
          /\ frac[g][1] * fib_fraction_threshold[2]
               >= fib_fraction_threshold[1] * frac[g][2]

\* C25: every gene of the cascade output has an expressing cell of the
\* target type, so calc_avg_distance for that type gives no survivor the
\* undefined marker and no row of the table holds an undefined distance.
C25_NoUndefinedDistance ==
    /\ Returned => \A g \in SeqToSet(ret_genes) : TargetDetections(g) # {}
    /\ pc \in {"dist_gene", "frac", "log2fc", "table", "done"}
         => \A g \in DOMAIN dist : ~dist[g].nan
    /\ pc = "done" => \A i \in 1..Len(df) : ~df[i].avg_distance.nan

\* the table holds a survivor with a defined mean distance while another
\* gene of the data set has no expressing target cell
C25_Witness ==
    /\ pc = "done"
    /\ \E i \in 1..Len(df) :
          /\ df[i].gene \in SeqToSet(ret_genes)
          /\ ~df[i].avg_distance.nan
          /\ Len(df[i].avg_distance.sq) >= 1
    /\ \E h \in GeneSet : TargetDetections(h) = {}

\* ---- an empty remote population -------------------------------------------------------
\* C26: when no cell of the target type lies in the remote niche, Stage 4
\* rejects every gene at its all-zero guard, before any ratio is formed,
\* and the cascade returns the empty list.
C26_EmptyRemoteRejectsAll ==
    TargetRemoteCells = {} =>
        /\ AfterStage4 => (passed = <<>> /\ fc_computed = {})
        /\ Returned => ret_genes = <<>>

\* the cascade returned with no target cell in the remote niche although a
\* gene reached Stage 4 with expression in the fibrotic niches
C26_Witness ==
    /\ pc = "done"
    /\ TargetRemoteCells = {}
    /\ \E i \in 1..Len(genes3) :
          \E c \in TargetFibroticCells : expr_all[c][genes3[i]] > 0
    /\ ret_genes = <<>>

\* ---- distances of the cells inside the fibrotic niches -----------------------------
\* C27: an expressing target cell that lies in a fibrotic niche is in the
\* index and its nearest-neighbour distance is 0; the mean distance of a
\* gene is 0 when all its expressing target cells lie in fibrotic niches,
\* and it is positive only if an expressing target cell lies outside them
\* at coordinates that no cell of the fibrotic niches has.
C27_FibroticCellsAtZero ==
    \A g \in DOMAIN dist :
        TargetDetections(g) # {} =>
            LET cs == InRowOrder(TargetDetections(g))
                sq == dist[g].sq
            IN  /\ ~dist[g].nan
                /\ FibroticDetections(g) # {} => ~dist[g].inf
                /\ ~dist[g].inf =>
                     /\ Len(sq) = Len(cs)
                     /\ \A i \in 1..Len(cs) :
                           cs[i] \in AllFibroticCells
                             => (cs[i] \in tree /\ sq[i] = 0)
                     /\ TargetDetections(g) \subseteq AllFibroticCells
                          => \A i \in 1..Len(sq) : sq[i] = 0
                     /\ (\E i \in 1..Len(sq) : sq[i] > 0)
                          => \E c \in TargetDetections(g) \ AllFibroticCells :
                                \A f \in AllFibroticCells :
                                    spatial[f] # spatial[c]

\* a gene was scored whose expressing target cells lie inside the fibrotic
\* niches, at distance 0, and outside them: one at a distance above 0 and
\* one on the coordinates of a fibrotic cell, at distance 0
C27_Witness ==
    /\ pc = "frac"
    /\ \E g \in DOMAIN dist :
          /\ TargetDetections(g) # {}
          /\ ~dist[g].inf
          /\ LET cs == InRowOrder(TargetDetections(g))
             IN  \E i, j, k \in 1..Len(cs) :
                    /\ cs[i] \in AllFibroticCells /\ dist[g].sq[i] = 0
                    /\ cs[j] \notin AllFibroticCells /\ dist[g].sq[j] > 0
                    /\ cs[k] \notin AllFibroticCells /\ dist[g].sq[k] = 0

\* ---- a window as long as the trajectory ----------------------------------------------
\* the sum of all NUM_BINS derivative samples of gene g over the target
\* cells of fibrotic niche number k (times a positive constant)
WholeSum(g, k) ==
    LET r == get_grouped_data(NicheTargetCells(k), NUM_BINS)
        d == gradient(gaussian_filter1d(BinValues(r.grp, g, NUM_BINS), NUM_BINS),
                      NUM_BINS)
    IN  SumOver(0..(NUM_BINS - 1), d)

\* C28: with early_phase_bins at or above the number of bins N, the slice
\* takes all N derivative samples and raises nothing: every pass over a
\* niche whose cells were binned ends with a decision, and the gene goes on
\* exactly when the sum (hence the mean) of the derivative over the whole
\* trajectory is strictly positive.
C28_WindowIsWholeTrajectory ==
    (pc \in {"stage4", "error"} /\ NUM_BINS >= 2 /\ early_phase_bins >= NUM_BINS) =>
        /\ SliceTo(early_phase_bins, NUM_BINS) = 0..(NUM_BINS - 1)
        /\ \A n \in 1..Len(bin_calls) :
              LET g == bin_calls[n][1]
                  k == bin_calls[n][2]
                  res == bin_calls[n][3]
              IN  ~get_grouped_data(NicheTargetCells(k), NUM_BINS).raised
                    => /\ res \in {"next", "break"}
                       /\ (res = "next") <=> (WholeSum(g, k) > 0)

\* Stage 3 ran with a window longer than the trajectory: one gene went on
\* from a niche and one was stopped in a niche
C28_Witness ==
    /\ pc = "stage4"
    /\ NUM_BINS >= 2
    /\ early_phase_bins > NUM_BINS
    /\ \E n, o \in 1..Len(bin_calls) :
          /\ bin_calls[n][3] = "next"
          /\ bin_calls[o][3] = "break"

====
